---------------------------- MODULE Spec2Model ----------------------------
(***************************************************************************)
(* Model of the Sandbox rendering demo: the Camera class (Camera.h), the   *)
(* application main() with its input callbacks (main.cpp) and the          *)
(* parallax-mapping fragment shader (parallax_mapping.fs).                 *)
(*                                                                         *)
(* Floats are modelled in fixed point.  Angles are integers in units of    *)
(* 1/AngleScale degree, direction vectors and matrices of directions in    *)
(* units of 1/FScale, positions in units of 1/PScale.  Sums and products   *)
(* are exact; only sin/cos, normalize and the divisions of the code round. *)
(* A vector whose components would be NaN in the code is the empty         *)
(* sequence NaNVec.  heightScale of main.cpp, whose range depends on the   *)
(* rounding of its sums, is an exact float32 (see F32Round).               *)
(***************************************************************************)
EXTENDS Integers, Sequences, FiniteSets, TLC

\* ------------------------------------------------------------ fixed point
AngleScale == 10
FScale == 1000
PScale == 2
SpeedScale == 10
GuardDigits == 10

Abs(a) == IF a < 0 THEN -a ELSE a

Sign(a) == IF a < 0 THEN -1 ELSE IF a > 0 THEN 1 ELSE 0

Min2(a, b) == IF a <= b THEN a ELSE b
Max2(a, b) == IF a >= b THEN a ELSE b

\* a / b rounded to the nearest integer, halves away from zero (b # 0)
RoundDiv(a, b) == Sign(a) * Sign(b) * ((2 * Abs(a) + Abs(b)) \div (2 * Abs(b)))

RECURSIVE NewtonSqrt(_, _)
\* Newton's iteration for the integer square root, from a guess x >= sqrt(n)
NewtonSqrt(n, x) ==
    LET y == (x + n \div x) \div 2
    IN  IF y >= x THEN x ELSE NewtonSqrt(n, y)

\* floor of the square root of n, 0 <= n < 2^30
ISqrt(n) == IF n = 0 THEN 0 ELSE NewtonSqrt(n, 32768)

\* ------------------------------------------------------------ glm vectors
NaNVec == <<>>

IsNaN(v) == Len(v) = 0

VAdd(a, b) == IF IsNaN(a) \/ IsNaN(b) THEN NaNVec
              ELSE <<a[1] + b[1], a[2] + b[2], a[3] + b[3]>>

VSub(a, b) == IF IsNaN(a) \/ IsNaN(b) THEN NaNVec
              ELSE <<a[1] - b[1], a[2] - b[2], a[3] - b[3]>>

\* dot product of two vectors, in the product of their units
Dot(a, b) == a[1] * b[1] + a[2] * b[2] + a[3] * b[3]

\* glm::cross of two direction vectors (units 1/FScale), in units 1/FScale
Cross(a, b) ==
    IF IsNaN(a) \/ IsNaN(b) THEN NaNVec
    ELSE <<RoundDiv(a[2] * b[3] - b[2] * a[3], FScale),
           RoundDiv(a[3] * b[1] - b[3] * a[1], FScale),
           RoundDiv(a[1] * b[2] - b[1] * a[2], FScale)>>

\* glm::normalize: v * inversesqrt(dot(v, v)); the zero vector gives NaN.
\* The vector is first scaled up so that its longest component has about
\* three digits, and its length is taken with GuardDigits more resolution.
Normalize(v) ==
    IF IsNaN(v) THEN NaNVec
    ELSE LET m == Max2(Abs(v[1]), Max2(Abs(v[2]), Abs(v[3])))
         IN  IF m = 0 THEN NaNVec
             ELSE LET k   == Max2(1, FScale \div m)
                      w   == <<v[1] * k, v[2] * k, v[3] * k>>
                      len == ISqrt(Dot(w, w) * GuardDigits * GuardDigits)
                  IN  <<RoundDiv(w[1] * FScale * GuardDigits, len),
                        RoundDiv(w[2] * FScale * GuardDigits, len),
                        RoundDiv(w[3] * FScale * GuardDigits, len)>>

\* sin(d degrees) * FScale for d = 0..90 (index d + 1)
SinTable ==
  <<0, 17, 35, 52, 70, 87, 105, 122, 139, 156, 174, 191, 208,
    225, 242, 259, 276, 292, 309, 326, 342, 358, 375, 391, 407, 423,
    438, 454, 469, 485, 500, 515, 530, 545, 559, 574, 588, 602, 616,
    629, 643, 656, 669, 682, 695, 707, 719, 731, 743, 755, 766, 777,
    788, 799, 809, 819, 829, 839, 848, 857, 866, 875, 883, 891, 899,
    906, 914, 921, 927, 934, 940, 946, 951, 956, 961, 966, 970, 974,
    978, 982, 985, 988, 990, 993, 995, 996, 998, 999, 999, 1000, 1000>>

\* sin on the first quadrant, a in 0 .. 90 * AngleScale, interpolated
\* linearly between whole degrees
SinQuadrant(a) ==
    LET d == a \div AngleScale
        f == a % AngleScale
    IN  IF f = 0 THEN SinTable[d + 1]
        ELSE SinTable[d + 1]
             + RoundDiv((SinTable[d + 2] - SinTable[d + 1]) * f, AngleScale)

\* sin(glm::radians(a)) for an angle a in units of 1/AngleScale degree
Sin(a) ==
    LET r == a % (360 * AngleScale)
    IN  IF r <= 90 * AngleScale THEN SinQuadrant(r)
        ELSE IF r <= 180 * AngleScale THEN SinQuadrant(180 * AngleScale - r)
        ELSE IF r <= 270 * AngleScale THEN -SinQuadrant(r - 180 * AngleScale)
        ELSE -SinQuadrant(360 * AngleScale - r)

\* cos(glm::radians(a))
Cos(a) == Sin(a + 90 * AngleScale)


\* ------------------------------------------------------------ glm matrices
\* A mat4 is a sequence of four columns of four entries, m[col][row] as in
\* glm (indices from 1).  A matrix with NaN entries is NaNMat.
NaNMat == <<>>

\* glm::mat4(1.0f) with 1.0 written as `one`
Mat4Diag(one) ==
    <<<<one, 0, 0, 0>>, <<0, one, 0, 0>>, <<0, 0, one, 0>>, <<0, 0, 0, one>>>>

\* glm operator*(mat4, mat4), exact: result[c][r] = sum_k a[k][r] * b[c][k]
Mat4Mul(a, b) ==
    IF IsNaN(a) \/ IsNaN(b) THEN NaNMat
    ELSE [c \in 1..4 |->
            [r \in 1..4 |->
                a[1][r] * b[c][1] + a[2][r] * b[c][2]
                + a[3][r] * b[c][3] + a[4][r] * b[c][4]]]

\* glm operator*(mat4, vec4), exact: result[r] = sum_c m[c][r] * v[c]
Mat4MulVec(m, v) ==
    IF IsNaN(m) \/ IsNaN(v) THEN NaNVec
    ELSE [r \in 1..4 |->
            m[1][r] * v[1] + m[2][r] * v[2] + m[3][r] * v[3] + m[4][r] * v[4]]

\* ----------------------------------------------------------------- Camera.h
\* enum Camera_Movement
Camera_Movement == {"FORWARD", "BACKWARD", "LEFT", "RIGHT", "UP", "DOWN"}

\* default camera values; angles and zoom in 1/AngleScale degree, SPEED in
\* 1/SpeedScale, SENSITIVITY in 1/SensScale
YAW == -900
PITCH == 0
SPEED == 25
SENSITIVITY == 1
SensScale == 10
ZOOM == 450
\* the literals of the clamps: 89.0f, 1.0f and 45.0f
PitchLimit == 890
ZoomMin == 10
ZoomMax == 450
\* deltaTime is in units of 1/TimeScale second
TimeScale == 2

\* a direction vector (1/FScale) times a velocity (1/(SpeedScale*TimeScale)),
\* as a displacement of a position (1/PScale)
Displacement(dir, velocity) ==
    IF IsNaN(dir) THEN NaNVec
    ELSE LET den == FScale * SpeedScale * TimeScale
         IN  <<RoundDiv(dir[1] * velocity * PScale, den),
               RoundDiv(dir[2] * velocity * PScale, den),
               RoundDiv(dir[3] * velocity * PScale, den)>>

\* updateCameraVectors with Right left as the raw cross product
updateCameraVectors_RawRight(cam) ==
    LET front == <<RoundDiv(Cos(cam.Yaw) * Cos(cam.Pitch), FScale),
                   Sin(cam.Pitch),
                   RoundDiv(Sin(cam.Yaw) * Cos(cam.Pitch), FScale)>>
        Front == Normalize(front)
        Right == Cross(Front, cam.WorldUp)
        Up    == Normalize(Cross(Right, Front))
    IN  [cam EXCEPT !.Front = Front, !.Right = Right, !.Up = Up]

\* Camera::updateCameraVectors
updateCameraVectors(cam) ==
    LET front == <<RoundDiv(Cos(cam.Yaw) * Cos(cam.Pitch), FScale),
                   Sin(cam.Pitch),
                   RoundDiv(Sin(cam.Yaw) * Cos(cam.Pitch), FScale)>>
        Front == Normalize(front)
        Right == Normalize(Cross(Front, cam.WorldUp))
        Up    == Normalize(Cross(Right, Front))
    IN  [cam EXCEPT !.Front = Front, !.Right = Right, !.Up = Up]

\* Camera::Camera(position, up, yaw, pitch); Up and Right have no value
\* before updateCameraVectors assigns them
Camera(position, up, yaw, pitch) ==
    updateCameraVectors(
        [Position |-> position, Front |-> <<0, 0, -FScale>>,
         Up |-> NaNVec, Right |-> NaNVec, WorldUp |-> up,
         Yaw |-> yaw, Pitch |-> pitch,
         MovementSpeed |-> SPEED, MouseSensitivity |-> SENSITIVITY,
         Zoom |-> ZOOM])

\* Camera::ProcessKeyboard
ProcessKeyboard(cam, direction, deltaTime) ==
    LET velocity == cam.MovementSpeed * deltaTime
        pos ==
            CASE direction = "FORWARD" ->
                    VAdd(VAdd(cam.Position, Displacement(cam.Front, velocity)),
                         Displacement(cam.Front, velocity))
              [] direction = "BACKWARD" ->
                    VSub(VSub(cam.Position, Displacement(cam.Front, velocity)),
                         Displacement(cam.Front, velocity))
              [] direction = "LEFT" ->
                    VSub(cam.Position, Displacement(cam.Right, velocity))
              [] direction = "RIGHT" ->
                    VAdd(cam.Position, Displacement(cam.Right, velocity))
              [] direction = "UP" ->
                    VAdd(cam.Position, Displacement(cam.Up, velocity))
              [] direction = "DOWN" ->
                    VSub(cam.Position, Displacement(cam.Up, velocity))
    IN  [cam EXCEPT !.Position = pos]

\* ProcessMouseMovement with the upper clamp of the pitch missing
ProcessMouseMovement_NoUpperClamp(cam, xoffset, yoffset, constrainPitch) ==
    LET xo    == RoundDiv(xoffset * cam.MouseSensitivity * AngleScale, SensScale)
        yo    == RoundDiv(yoffset * cam.MouseSensitivity * AngleScale, SensScale)
        yaw   == cam.Yaw + xo
        pitch == cam.Pitch + yo
        clamped ==
            IF constrainPitch
            THEN IF pitch < -PitchLimit THEN -PitchLimit ELSE pitch
            ELSE pitch
    IN  updateCameraVectors([cam EXCEPT !.Yaw = yaw, !.Pitch = clamped])

\* ProcessMouseMovement clamping the pitch whatever constrainPitch says
ProcessMouseMovement_ClampAlways(cam, xoffset, yoffset, constrainPitch) ==
    LET xo    == RoundDiv(xoffset * cam.MouseSensitivity * AngleScale, SensScale)
        yo    == RoundDiv(yoffset * cam.MouseSensitivity * AngleScale, SensScale)
        yaw   == cam.Yaw + xo
        pitch == cam.Pitch + yo
        clamped ==
            IF pitch > PitchLimit THEN PitchLimit
            ELSE IF pitch < -PitchLimit THEN -PitchLimit
            ELSE pitch
    IN  updateCameraVectors([cam EXCEPT !.Yaw = yaw, !.Pitch = clamped])

\* ProcessMouseMovement without the final updateCameraVectors()
ProcessMouseMovement_NoUpdate(cam, xoffset, yoffset, constrainPitch) ==
    LET xo    == RoundDiv(xoffset * cam.MouseSensitivity * AngleScale, SensScale)
        yo    == RoundDiv(yoffset * cam.MouseSensitivity * AngleScale, SensScale)
        yaw   == cam.Yaw + xo
        pitch == cam.Pitch + yo
        clamped ==
            IF constrainPitch
            THEN IF pitch > PitchLimit THEN PitchLimit
                 ELSE IF pitch < -PitchLimit THEN -PitchLimit
                 ELSE pitch
            ELSE pitch
    IN  [cam EXCEPT !.Yaw = yaw, !.Pitch = clamped]

\* Camera::ProcessMouseMovement; the offsets are in pixels
ProcessMouseMovement(cam, xoffset, yoffset, constrainPitch) ==
    LET xo    == RoundDiv(xoffset * cam.MouseSensitivity * AngleScale, SensScale)
        yo    == RoundDiv(yoffset * cam.MouseSensitivity * AngleScale, SensScale)
        yaw   == cam.Yaw + xo
        pitch == cam.Pitch + yo
        clamped ==
            IF constrainPitch
            THEN IF pitch > PitchLimit THEN PitchLimit
                 ELSE IF pitch < -PitchLimit THEN -PitchLimit
                 ELSE pitch
            ELSE pitch
    IN  updateCameraVectors([cam EXCEPT !.Yaw = yaw, !.Pitch = clamped])

\* ProcessMouseScroll with the lower clamp of the zoom missing
ProcessMouseScroll_NoLowerClamp(cam, yoffset) ==
    LET zoom == cam.Zoom - yoffset
        high == IF zoom > ZoomMax THEN ZoomMax ELSE zoom
    IN  [cam EXCEPT !.Zoom = high]

\* Camera::ProcessMouseScroll; yoffset in 1/AngleScale degree
ProcessMouseScroll(cam, yoffset) ==
    LET zoom == cam.Zoom - yoffset
        low  == IF zoom < ZoomMin THEN ZoomMin ELSE zoom
        high == IF low > ZoomMax THEN ZoomMax ELSE low
    IN  [cam EXCEPT !.Zoom = high]

\* a position (1/PScale) in the units of a direction vector (1/FScale)
ToFine(pos) ==
    IF IsNaN(pos) THEN NaNVec
    ELSE LET k == FScale \div PScale
         IN  <<pos[1] * k, pos[2] * k, pos[3] * k>>

\* LookAtFrom returning translation * rotation
LookAtFrom_TranslationFirst(position, cameraDirection, worldup) ==
    LET cameraRight == Normalize(Cross(worldup, cameraDirection))
        cameraUp    == Cross(cameraDirection, cameraRight)
    IN  IF IsNaN(position) \/ IsNaN(cameraRight) \/ IsNaN(cameraUp) THEN NaNMat
        ELSE LET translation ==
                     [Mat4Diag(PScale) EXCEPT
                        ![4] = <<-position[1], -position[2], -position[3], PScale>>]
                 rotation ==
                     <<<<cameraRight[1], cameraUp[1], cameraDirection[1], 0>>,
                       <<cameraRight[2], cameraUp[2], cameraDirection[2], 0>>,
                       <<cameraRight[3], cameraUp[3], cameraDirection[3], 0>>,
                       <<0, 0, 0, FScale>>>>
             IN  Mat4Mul(translation, rotation)

\* the part of calc_lookat and calc_lookat_reverse after cameraDirection:
\* the translation by -position, the rotation whose rows are right, up and
\* direction, and their product rotation * translation
LookAtFrom(position, cameraDirection, worldup) ==
    LET cameraRight == Normalize(Cross(worldup, cameraDirection))
        cameraUp    == Cross(cameraDirection, cameraRight)
    IN  IF IsNaN(position) \/ IsNaN(cameraRight) \/ IsNaN(cameraUp) THEN NaNMat
        ELSE LET translation ==
                     [Mat4Diag(PScale) EXCEPT
                        ![4] = <<-position[1], -position[2], -position[3], PScale>>]
                 rotation ==
                     <<<<cameraRight[1], cameraUp[1], cameraDirection[1], 0>>,
                       <<cameraRight[2], cameraUp[2], cameraDirection[2], 0>>,
                       <<cameraRight[3], cameraUp[3], cameraDirection[3], 0>>,
                       <<0, 0, 0, FScale>>>>
             IN  Mat4Mul(rotation, translation)

\* Camera::calc_lookat; target is in units of 1/FScale
calc_lookat(position, target, worldup) ==
    LookAtFrom(position, Normalize(VSub(ToFine(position), target)), worldup)

\* Camera::calc_lookat_reverse; target is in units of 1/FScale
calc_lookat_reverse(position, target, worldup) ==
    LookAtFrom(position, Normalize(VSub(target, ToFine(position))), worldup)

\* Camera::GetViewMatrix
GetViewMatrix(cam) ==
    calc_lookat(cam.Position, VAdd(ToFine(cam.Position), cam.Front), cam.Up)

\* Camera::GetViewMatrixReverse
GetViewMatrixReverse(cam) ==
    calc_lookat_reverse(cam.Position, VAdd(ToFine(cam.Position), cam.Front),
                        cam.Up)

\* ------------------------------------------------------------------- state
VARIABLES
    camera,       \* main.cpp: Camera camera
    lastX,        \* main.cpp: float lastX (pixels)
    lastY,        \* main.cpp: float lastY (pixels)
    firstMouse,   \* main.cpp: bool firstMouse
    heightScale,  \* main.cpp: float heightScale, a float32 value (F32)
    deltaTime,    \* main.cpp: float deltaTime, in units of 1/TimeScale second
    lastFrame,    \* main.cpp: float lastFrame, in units of 1/TimeScale second
    quadVAO,      \* main.cpp: unsigned int quadVAO (0: not yet generated)
    pc,           \* the place main() has reached
    badFiles,     \* the image files stbi_load cannot decode
    returned,     \* what main() returned: "running", "0" or "-1"
    log,          \* the lines written to std::cout
    shaders,      \* the Shader objects constructed
    glGenerated,  \* the names of the GL objects generated, in order
    glDeleted,    \* the GL vertex arrays and buffers deleted
    stbiLoads,    \* the paths handed to stbi_load, in order
    uploaded,     \* the image files whose pixels went to glTexImage2D
    shouldClose,  \* the window's close flag
    frames,       \* iterations of the render loop begun, counted to MaxFrames
    frameSteps,   \* the steps of the current iteration, in order
    events,       \* callbacks run by the current glfwPollEvents
    uHeightScale, \* the uniform heightScale of the parallax shader
    fs_in,        \* parallax_mapping.fs: the fragment's inputs
    depthMap,     \* parallax_mapping.fs: the texels of sampler depthMap
    fsPc,         \* the place the fragment shader has reached
    deltaTexCoords,        \* ParallaxMapping: vec2 deltaTexCoords
    currentTexCoords,      \* ParallaxMapping: vec2 currentTexCoords
    currentLayerDepth,     \* ParallaxMapping: float currentLayerDepth
    currentDepthMapValue,  \* ParallaxMapping: float currentDepthMapValue
    marchSteps,   \* iterations of the while loop of ParallaxMapping so far
    texCoords,    \* parallax_mapping.fs main(): vec2 texCoords
    FragColor     \* parallax_mapping.fs: "unwritten" or "written"

cameraVars == <<camera>>

inputVars == <<lastX, lastY, firstMouse, heightScale, deltaTime, lastFrame>>

mainVars ==
    <<quadVAO, pc, badFiles, returned, log, shaders, glGenerated, glDeleted,
      stbiLoads, uploaded, shouldClose, frames, frameSteps, events,
      uHeightScale>>

shaderVars ==
    <<fs_in, depthMap, fsPc, deltaTexCoords, currentTexCoords,
      currentLayerDepth, currentDepthMapValue, marchSteps, texCoords,
      FragColor>>

vars == <<cameraVars, inputVars, mainVars, shaderVars>>

\* settings of main.cpp
SCR_WIDTH == 800
SCR_HEIGHT == 600
\* heightScale is a float32.  Its values are multiples of 2^-34 (the unit
\* in the last place of the step 0.0005f); the multiple is kept as
\* <<hi, lo>> = hi * F32Limb + lo with 0 <= lo < F32Limb = 2^17, and a sum
\* is rounded to the 24 significant bits of a float32, ties to even.
F32Limb == 131072

F32Zero == <<0, 0>>
F32One == <<F32Limb, 0>>
F32Positive(x) == x[1] > 0 \/ (x[1] = 0 /\ x[2] > 0)
F32Negative(x) == x[1] < 0
F32Less(x, y) == x[1] < y[1] \/ (x[1] = y[1] /\ x[2] < y[2])

RECURSIVE BitLen(_)
BitLen(n) == IF n = 0 THEN 0 ELSE 1 + BitLen(n \div 2)

RECURSIVE Pow2(_)
Pow2(n) == IF n = 0 THEN 1 ELSE 2 * Pow2(n - 1)

F32Carry(hi, lo) == <<hi + (lo \div F32Limb), lo % F32Limb>>

\* round to nearest, ties to even; values below 2^24 units, and the negative
\* values of this program (above -0.0005f), are exact
F32Round(x) ==
    IF x[1] <= 0 \/ BitLen(x[1]) <= 7 THEN x
    ELSE LET q    == Pow2(BitLen(x[1]) - 7)
             rem  == x[2] % q
             kept == x[2] - rem
             up   == \/ 2 * rem > q
                     \/ (2 * rem = q /\ ((x[2] \div q) % 2) = 1)
         IN  F32Carry(x[1], IF up THEN kept + q ELSE kept)

F32Add(x, y) == F32Round(F32Carry(x[1] + y[1], x[2] + y[2]))
F32Sub(x, y) == F32Round(F32Carry(x[1] - y[1], x[2] - y[2]))

\* 0.1f = 13421773 * 2^-27 and 0.0005f = 8589935 * 2^-34
InitialHeightScale == <<13107, 26240>>
HeightStep == <<65, 70255>>

\* the uniform in the shader's fixed point, units of 1/HScale
HScale == 2000
UniformFixed(u) ==
    RoundDiv(u[1] * HScale + ((u[2] * HScale) \div F32Limb), F32Limb)

\* the skybox faces and the toybox textures main() loads (file names)
faces == <<"right.jpg", "left.jpg", "top.jpg", "bottom.jpg", "front.jpg",
           "back.jpg">>

TextureCalls ==
    <<[handle |-> "toyboxTexture", path |-> "wood.png"],
      [handle |-> "toyboxNormalTexture", path |-> "toy_box_normal.png"],
      [handle |-> "toybox_d", path |-> "toy_box_disp.png"]>>

Range(seq) == {seq[i] : i \in 1..Len(seq)}

AllFiles == Range(faces) \cup {TextureCalls[i].path : i \in 1..3}

\* the families of undecodable files the specifications start from
BadFileSets ==
    {{}, {"top.jpg", "toy_box_disp.png"}, {"wood.png"}, AllFiles}

\* the initial values of the globals of main.cpp other than camera
InitGlobals ==
    /\ lastX = SCR_WIDTH \div 2
    /\ lastY = SCR_HEIGHT \div 2
    /\ firstMouse = TRUE
    /\ heightScale = InitialHeightScale
    /\ deltaTime = 0
    /\ lastFrame = 0
    /\ quadVAO = 0

\* main() before its first statement
InitMain ==
    /\ pc = "glfwCreateWindow"
    /\ returned = "running"
    /\ log = <<>>
    /\ shaders = {}
    /\ glGenerated = <<>>
    /\ glDeleted = {}
    /\ stbiLoads = <<>>
    /\ uploaded = {}
    /\ shouldClose = FALSE
    /\ frames = 0
    /\ frameSteps = <<>>
    /\ events = 0

\* ------------------------------------------------------ parallax_mapping.fs
\* Texture coordinates and the interpolation weight are in units of 1/TScale
\* and 1/WScale; depths are in units of 1/DScale, which holds both the texel
\* values k/255 of an 8-bit depth map and the layer depths j/numLayers.
TScale == 1000
WScale == 1000
DScale == 2550
\* texels along each side of the depth map
TexSize == 2

numLayers == 10
\* layerDepth with twice the number of layers
layerDepth_HalfStep == DScale \div (2 * numLayers)

layerDepth == DScale \div numLayers

\* texture(depthMap, coord).r with wrap mode GL_REPEAT, nearest texel
texture(map, coord) ==
    map[(((coord[1] * TexSize) \div TScale) % TexSize) + 1]
       [(((coord[2] * TexSize) \div TScale) % TexSize) + 1]

\* vec2 P = viewDir.xy / viewDir.z * heightScale; deltaTexCoords = P / numLayers,
\* with the uniform scaled out of P
ParallaxDelta_Unscaled(viewDir, hs) ==
    LET qx == RoundDiv(viewDir[1] * FScale, viewDir[3])
        qy == RoundDiv(viewDir[2] * FScale, viewDir[3])
    IN  <<RoundDiv(qx, numLayers), RoundDiv(qy, numLayers)>>

\* vec2 P = viewDir.xy / viewDir.z * heightScale; deltaTexCoords = P / numLayers
ParallaxDelta(viewDir, hs) ==
    LET qx == RoundDiv(viewDir[1] * FScale, viewDir[3])
        qy == RoundDiv(viewDir[2] * FScale, viewDir[3])
    IN  <<RoundDiv(qx * UniformFixed(hs), HScale * numLayers),
          RoundDiv(qy * UniformFixed(hs), HScale * numLayers)>>

\* the loop test with <= for <
MarchCondition_Inclusive(layer, value) == layer <= value

\* while(currentLayerDepth < currentDepthMapValue)
MarchCondition(layer, value) == layer < value

\* vec2 prevTexCoords = currentTexCoords + deltaTexCoords
prevTexCoords(cur, delta) == <<cur[1] + delta[1], cur[2] + delta[2]>>

\* float afterDepth = currentDepthMapValue - currentLayerDepth
afterDepth(value, layer) == value - layer

\* beforeDepth without the step back by one layer
beforeDepth_NoLayerStep(map, cur, delta, layer) ==
    texture(map, prevTexCoords(cur, delta)) - layer

\* float beforeDepth = texture(depthMap, prevTexCoords).r - currentLayerDepth
\*                     + layerDepth
beforeDepth(map, cur, delta, layer) ==
    texture(map, prevTexCoords(cur, delta)) - layer + layerDepth

\* float weight = afterDepth / (afterDepth - beforeDepth), in 1/WScale
weight(after, before) == RoundDiv(after * WScale, after - before)

\* parallax_mapping.fs:43-54: the interpolation between the coordinates before
\* and after the collision
Interpolate(map, cur, delta, value, layer) ==
    LET prev   == prevTexCoords(cur, delta)
        after  == afterDepth(value, layer)
        before == beforeDepth(map, cur, delta, layer)
    IN  IF after = before THEN NaNVec
        ELSE LET w == weight(after, before)
             IN  <<RoundDiv(prev[1] * w + cur[1] * (WScale - w), WScale),
                   RoundDiv(prev[2] * w + cur[2] * (WScale - w), WScale)>>

\* the edge test with >= and <= for > and <
EdgeDiscard_Inclusive(tc) ==
    /\ ~IsNaN(tc)
    /\ (tc[1] >= TScale \/ tc[2] >= TScale \/ tc[1] <= 0 \/ tc[2] <= 0)

\* texCoords.x > 1.0 || texCoords.y > 1.0 || texCoords.x < 0.0 || texCoords.y < 0.0
\* (every comparison with NaN is false)
EdgeDiscard(tc) ==
    /\ ~IsNaN(tc)
    /\ (tc[1] > TScale \/ tc[2] > TScale \/ tc[1] < 0 \/ tc[2] < 0)

\* the fragment's inputs: texture coordinates on the quad and the view
\* position in tangent space (1/FScale), the fragment at the origin
FragTexCoords ==
    {<<0, 0>>, <<TScale, 0>>, <<TScale, TScale>>, <<500, 250>>, <<950, 50>>}
TangentViewPositions ==
    {<<0, 0, 1000>>, <<600, -400, 1200>>, <<-1200, 300, 400>>}
\* the values of the uniform: the initial 0.1 and the two ends 0 and 1
HeightScales == {F32Zero, InitialHeightScale, F32One}

\* depths of an 8-bit depth map: k/255 is 10 * k
TexelDepths == {0, 10, 250, 260, 510, 1270, 1280, 2540, 2550}

ConstantField(h) == [i \in 1..TexSize |-> [j \in 1..TexSize |-> h]]
Checkerboard(a, b) ==
    [i \in 1..TexSize |->
        [j \in 1..TexSize |-> IF ((i + j) % 2) = 0 THEN a ELSE b]]
Ramp(step) ==
    [i \in 1..TexSize |->
        [j \in 1..TexSize |->
            Min2(DScale, ((i - 1) * TexSize + (j - 1)) * step)]]

DepthMaps ==
    {ConstantField(h) : h \in TexelDepths}
    \cup {Checkerboard(0, DScale), Checkerboard(1270, 260), Ramp(800)}

\* the fragment shader before main() runs on the fragment `fin`
InitFragment(fin, map) ==
    /\ fs_in = fin
    /\ depthMap = map
    /\ fsPc = "main"
    /\ deltaTexCoords = <<0, 0>>
    /\ currentTexCoords = <<0, 0>>
    /\ currentLayerDepth = 0
    /\ currentDepthMapValue = 0
    /\ marchSteps = 0
    /\ texCoords = fin.TexCoords
    /\ FragColor = "unwritten"

\* the fragment the application specifications leave untouched
IdleFragment ==
    InitFragment([TexCoords |-> <<0, 0>>, TangentViewPos |-> <<0, 0, 1000>>,
                  TangentFragPos |-> <<0, 0, 0>>], ConstantField(0))

\* --------------------------------------------------- the Camera class alone
\* Bounds of the camera specifications: positions stay in a box of MaxPos
\* units around the origin and the yaw within MaxYaw degrees.
MaxPos == 3
MaxYaw == 90

DefaultUp == <<0, FScale, 0>>

InitPositions == {<<0, 0, 3 * PScale>>}
InitYaws == {YAW}
InitPitches == {PITCH}
\* one second
DeltaTimes == {TimeScale}
MouseOffsets == {<<600, 0>>, <<-600, -1200>>, <<0, 2000>>}
ScrollOffsets == {-1000, 220, 1000}

InBox(pos) ==
    /\ ~IsNaN(pos)
    /\ \A i \in 1..3 : Abs(pos[i]) <= MaxPos * PScale

InitCamera ==
    /\ \E position \in InitPositions, yaw \in InitYaws, pitch \in InitPitches :
          camera = Camera(position, DefaultUp, yaw, pitch)
    /\ InitGlobals
    /\ InitMain
    /\ uHeightScale = F32Zero
    /\ badFiles = {}
    /\ IdleFragment

CamKeyboard ==
    /\ \E direction \in Camera_Movement, dt \in DeltaTimes :
          \E cam \in {ProcessKeyboard(camera, direction, dt)} :
             /\ InBox(cam.Position)
             /\ camera' = cam
    /\ UNCHANGED <<inputVars, mainVars, shaderVars>>

CamMouse ==
    /\ \E offset \in MouseOffsets :
          \E cam \in {ProcessMouseMovement(camera, offset[1], offset[2], TRUE)} :
             /\ Abs(cam.Yaw) <= MaxYaw * AngleScale
             /\ camera' = cam
    /\ UNCHANGED <<inputVars, mainVars, shaderVars>>

CamScroll ==
    /\ \E yoffset \in ScrollOffsets :
          camera' = ProcessMouseScroll(camera, yoffset)
    /\ UNCHANGED <<inputVars, mainVars, shaderVars>>

NextCamera == CamKeyboard \/ CamMouse \/ CamScroll

SpecCamera == InitCamera /\ [][NextCamera]_vars

\* ------------------------------------- the Camera class, pitch unconstrained
\* Bounds: the yaw stays within MaxFreeYaw degrees (more than a full turn)
\* and the pitch within MaxFreePitch degrees.
MaxFreeYaw == 400
MaxFreePitch == 200

CamRotate ==
    /\ \E offset \in MouseOffsets, constrainPitch \in BOOLEAN :
          \E cam \in {ProcessMouseMovement(camera, offset[1], offset[2],
                                           constrainPitch)} :
             /\ Abs(cam.Yaw) <= MaxFreeYaw * AngleScale
             /\ Abs(cam.Pitch) <= MaxFreePitch * AngleScale
             /\ camera' = cam
    /\ UNCHANGED <<inputVars, mainVars, shaderVars>>

CamZoom ==
    /\ \E yoffset \in ScrollOffsets :
          camera' = ProcessMouseScroll(camera, yoffset)
    /\ UNCHANGED <<inputVars, mainVars, shaderVars>>

NextCameraFree == CamRotate \/ CamZoom

SpecCameraFree == InitCamera /\ [][NextCameraFree]_vars

\* ------------------------------------------------------------------ main.cpp
\* Bounds of the application: glfwGetTime stops advancing at MaxTime seconds,
\* frames counts to MaxFrames, and one glfwPollEvents runs at most MaxEvents
\* callbacks.
MaxTime == 1
MaxFrames == 2
MaxEvents == 1

\* time between two reads of glfwGetTime, in units of 1/TimeScale second
FrameTicks == {1, TimeScale}
\* the keys held during a frame
MainKeySets == {{}, {"W", "D", "E"}, {"S", "A", "Q"}, {"ESCAPE"}}
\* cursor positions reported to mouse_callback (pixels)
CursorPositions == {<<400, 300>>, <<1000, 1500>>}

\* the GL objects and the output a texture loader works on
LoaderState ==
    [glGenerated |-> glGenerated, stbiLoads |-> stbiLoads,
     uploaded |-> uploaded, log |-> log, result |-> ""]

\* loadTexture with glTexImage2D outside the test of `data`
loadTexture_UploadUnchecked(st, handle, path, bad) ==
    [glGenerated |-> Append(st.glGenerated, handle),
     stbiLoads |-> Append(st.stbiLoads, path),
     uploaded |-> st.uploaded \cup {path},
     log |-> IF path \in bad
             THEN Append(st.log, "Texture failed to load at path: " \o path)
             ELSE st.log,
     result |-> handle]

\* loadTexture(path, gammaCorrection) for the texture main() names `handle`;
\* `bad` are the files stbi_load returns NULL for
loadTexture(st, handle, path, bad) ==
    LET gen   == Append(st.glGenerated, handle)
        loads == Append(st.stbiLoads, path)
    IN  IF path \notin bad
        THEN [glGenerated |-> gen, stbiLoads |-> loads,
              uploaded |-> st.uploaded \cup {path}, log |-> st.log,
              result |-> handle]
        ELSE [glGenerated |-> gen, stbiLoads |-> loads,
              uploaded |-> st.uploaded,
              log |-> Append(st.log, "Texture failed to load at path: " \o path),
              result |-> handle]

RECURSIVE loadCubemapFaces(_, _, _, _)
\* the loop of loadCubemap over faces[i], i = from .. faces.size()
loadCubemapFaces(st, fs, from, bad) ==
    IF from > Len(fs) THEN st
    ELSE LET loads == Append(st.stbiLoads, fs[from])
             next ==
                 IF fs[from] \notin bad
                 THEN [st EXCEPT !.stbiLoads = loads,
                                 !.uploaded = @ \cup {fs[from]}]
                 ELSE [st EXCEPT !.stbiLoads = loads,
                                 !.log = Append(@,
                                     "Cubemap texture failed to load at path: "
                                     \o fs[from])]
         IN  loadCubemapFaces(next, fs, from + 1, bad)

\* loadCubemap(faces)
loadCubemap(st, fs, bad) ==
    LET generated == [st EXCEPT !.glGenerated = Append(@, "cubemapTexture"),
                                !.result = "cubemapTexture"]
    IN  loadCubemapFaces(generated, fs, 1, bad)

\* processInput(window) with the keys in `keys` pressed
processInput(cam, hs, close, keys, dt) ==
    LET c1 == IF "W" \in keys THEN ProcessKeyboard(cam, "FORWARD", dt) ELSE cam
        c2 == IF "S" \in keys THEN ProcessKeyboard(c1, "BACKWARD", dt) ELSE c1
        c3 == IF "A" \in keys THEN ProcessKeyboard(c2, "LEFT", dt) ELSE c2
        c4 == IF "D" \in keys THEN ProcessKeyboard(c3, "RIGHT", dt) ELSE c3
        c5 == IF "Q" \in keys THEN ProcessKeyboard(c4, "DOWN", dt) ELSE c4
        c6 == IF "E" \in keys THEN ProcessKeyboard(c5, "UP", dt) ELSE c5
        h  == IF "P" \in keys
              THEN IF F32Positive(hs) THEN F32Sub(hs, HeightStep)
                   ELSE F32Zero
              ELSE IF "O" \in keys
                   THEN IF F32Less(hs, F32One) THEN F32Add(hs, HeightStep)
                        ELSE F32One
                   ELSE hs
    IN  [camera |-> c6, heightScale |-> h,
         shouldClose |-> (close \/ "ESCAPE" \in keys)]

\* mouse_callback(window, xposIn, yposIn)
mouse_callback(cam, lx, ly, first, xpos, ypos) ==
    LET lx1 == IF first THEN xpos ELSE lx
        ly1 == IF first THEN ypos ELSE ly
        xoffset == xpos - lx1
        yoffset == ly1 - ypos
    IN  [camera |-> ProcessMouseMovement(cam, xoffset, yoffset, TRUE),
         lastX |-> xpos, lastY |-> ypos, firstMouse |-> FALSE]

\* renderQuad(): the quad's objects are generated on the first call
renderQuad(q, generated) ==
    IF q = 0
    THEN [quadVAO |-> Len(generated) + 1,
          glGenerated |-> generated \o <<"quadVAO", "quadVBO">>]
    ELSE [quadVAO |-> q, glGenerated |-> generated]

cameraAndInput == <<cameraVars, inputVars>>

\* main.cpp:54-60
CreateWindow ==
    /\ pc = "glfwCreateWindow"
    /\ \E created \in BOOLEAN :
          IF created
          THEN /\ pc' = "gladLoadGLLoader"
               /\ UNCHANGED <<shaderVars, log, returned>>
          ELSE /\ log' = Append(log, "Failed to create GLFW window")
               /\ returned' = "-1"
               /\ pc' = "Exited"
    /\ UNCHANGED <<shaderVars, cameraAndInput, quadVAO, badFiles, shaders, glGenerated,
                   glDeleted, stbiLoads, uploaded, shouldClose, frames,
                   frameSteps, events, uHeightScale>>

\* main.cpp:61-73, with the fall-through a missing return would give
LoadGL_NoReturn ==
    /\ pc = "gladLoadGLLoader"
    /\ \E loaded \in BOOLEAN :
          IF loaded
          THEN /\ pc' = "Shader"
               /\ UNCHANGED <<shaderVars, log, returned>>
          ELSE /\ log' = Append(log, "Failed to initialize GLAD")
               /\ returned' = "-1"
               /\ pc' = "Shader"
    /\ UNCHANGED <<shaderVars, cameraAndInput, quadVAO, badFiles, shaders, glGenerated,
                   glDeleted, stbiLoads, uploaded, shouldClose, frames,
                   frameSteps, events, uHeightScale>>

\* main.cpp:61-73
LoadGL ==
    /\ pc = "gladLoadGLLoader"
    /\ \E loaded \in BOOLEAN :
          IF loaded
          THEN /\ pc' = "Shader"
               /\ UNCHANGED <<shaderVars, log, returned>>
          ELSE /\ log' = Append(log, "Failed to initialize GLAD")
               /\ returned' = "-1"
               /\ pc' = "Exited"
    /\ UNCHANGED <<shaderVars, cameraAndInput, quadVAO, badFiles, shaders, glGenerated,
                   glDeleted, stbiLoads, uploaded, shouldClose, frames,
                   frameSteps, events, uHeightScale>>

\* main.cpp:77-85
CompileShaders ==
    /\ pc = "Shader"
    /\ shaders' = {"shader", "skyboxShader", "reflectShader", "redflag",
                   "parallax"}
    /\ pc' = "glGenBuffers"
    /\ UNCHANGED <<shaderVars, cameraAndInput, quadVAO, badFiles, returned, log,
                   glGenerated, glDeleted, stbiLoads, uploaded, shouldClose,
                   frames, frameSteps, events, uHeightScale>>

\* main.cpp:177-209
GenBuffers ==
    /\ pc = "glGenBuffers"
    /\ glGenerated' = glGenerated \o <<"VAO", "VBO", "EBO", "skyVAO", "skyVBO",
                                       "bayraqVAO", "bayraqVBO">>
    /\ pc' = "loadCubemap"
    /\ UNCHANGED <<shaderVars, cameraAndInput, quadVAO, badFiles, returned, log, shaders,
                   glDeleted, stbiLoads, uploaded, shouldClose, frames,
                   frameSteps, events, uHeightScale>>

\* main.cpp:211-220
LoadCubemap ==
    /\ pc = "loadCubemap"
    /\ \E st \in {loadCubemap(LoaderState, faces, badFiles)} :
          /\ glGenerated' = st.glGenerated
          /\ stbiLoads' = st.stbiLoads
          /\ uploaded' = st.uploaded
          /\ log' = st.log
    /\ pc' = "loadTexture1"
    /\ UNCHANGED <<shaderVars, cameraAndInput, quadVAO, badFiles, returned, shaders,
                   glDeleted, shouldClose, frames, frameSteps, events,
                   uHeightScale>>

TexturePc == <<"loadTexture1", "loadTexture2", "loadTexture3", "LoopTest">>

\* main.cpp:222-236: the three loadTexture calls, one per step
LoadTexture ==
    /\ \E i \in 1..3 :
          /\ pc = TexturePc[i]
          /\ \E st \in {loadTexture(LoaderState, TextureCalls[i].handle,
                                    TextureCalls[i].path, badFiles)} :
                /\ glGenerated' = st.glGenerated
                /\ stbiLoads' = st.stbiLoads
                /\ uploaded' = st.uploaded
                /\ log' = st.log
          /\ pc' = TexturePc[i + 1]
    /\ UNCHANGED <<shaderVars, cameraAndInput, quadVAO, badFiles, returned, shaders,
                   glDeleted, shouldClose, frames, frameSteps, events,
                   uHeightScale>>

\* main.cpp:244-249: the loop test passes and the frame's times are taken
BeginFrame ==
    /\ pc = "LoopTest"
    /\ ~shouldClose
    /\ \E d \in FrameTicks :
          LET currentFrame == Min2(lastFrame + d, MaxTime * TimeScale)
          IN  /\ deltaTime' = currentFrame - lastFrame
              /\ lastFrame' = currentFrame
    /\ frames' = Min2(frames + 1, MaxFrames)
    /\ frameSteps' = <<>>
    /\ pc' = "processInput"
    /\ UNCHANGED <<shaderVars, cameraVars, lastX, lastY, firstMouse, heightScale, quadVAO,
                   badFiles, returned, log, shaders, glGenerated, glDeleted,
                   stbiLoads, uploaded, shouldClose, events, uHeightScale>>

\* main.cpp:251
ProcessInput ==
    /\ pc = "processInput"
    /\ \E keys \in MainKeySets :
          \E r \in {processInput(camera, heightScale, shouldClose, keys,
                                 deltaTime)} :
             /\ InBox(r.camera.Position)
             /\ camera' = r.camera
             /\ heightScale' = r.heightScale
             /\ shouldClose' = r.shouldClose
    /\ frameSteps' = Append(frameSteps, "processInput")
    /\ pc' = "drawPyramid"
    /\ UNCHANGED <<shaderVars, lastX, lastY, firstMouse, deltaTime, lastFrame, quadVAO,
                   badFiles, returned, log, shaders, glGenerated, glDeleted,
                   stbiLoads, uploaded, frames, events, uHeightScale>>

\* the draws with the flat quad ahead of the reflective object
DrawPc_FlagBeforeReflect ==
    <<"drawPyramid", "drawFlag", "drawReflect", "drawParallax", "drawSkybox",
      "glfwSwapBuffers">>

DrawPc == <<"drawPyramid", "drawReflect", "drawFlag", "drawParallax",
            "drawSkybox", "glfwSwapBuffers">>

\* main.cpp:256-308: the double pyramid, the reflective object and the flat
\* quad, one per step
DrawPlain ==
    /\ \E i \in 1..3 :
          /\ pc = DrawPc[i]
          /\ frameSteps' = Append(frameSteps, DrawPc[i])
          /\ pc' = DrawPc[i + 1]
    /\ UNCHANGED <<shaderVars, cameraAndInput, quadVAO, badFiles, returned, log, shaders,
                   glGenerated, glDeleted, stbiLoads, uploaded, shouldClose,
                   frames, events, uHeightScale>>

\* main.cpp:310-326: the parallax-mapped quad
DrawParallax ==
    /\ pc = "drawParallax"
    /\ uHeightScale' = heightScale
    /\ \E r \in {renderQuad(quadVAO, glGenerated)} :
          /\ quadVAO' = r.quadVAO
          /\ glGenerated' = r.glGenerated
    /\ frameSteps' = Append(frameSteps, "drawParallax")
    /\ pc' = "drawSkybox"
    /\ UNCHANGED <<shaderVars, cameraVars, lastX, lastY, firstMouse, heightScale,
                   deltaTime, lastFrame, badFiles, returned, log, shaders,
                   glDeleted, stbiLoads, uploaded, shouldClose, frames,
                   events>>

\* main.cpp:328-339: the skybox
DrawSkybox ==
    /\ pc = "drawSkybox"
    /\ frameSteps' = Append(frameSteps, "drawSkybox")
    /\ pc' = "glfwSwapBuffers"
    /\ UNCHANGED <<shaderVars, cameraAndInput, quadVAO, badFiles, returned, log, shaders,
                   glGenerated, glDeleted, stbiLoads, uploaded, shouldClose,
                   frames, events, uHeightScale>>

\* main.cpp:343
SwapBuffers ==
    /\ pc = "glfwSwapBuffers"
    /\ frameSteps' = Append(frameSteps, "glfwSwapBuffers")
    /\ events' = 0
    /\ pc' = "glfwPollEvents"
    /\ UNCHANGED <<shaderVars, cameraAndInput, quadVAO, badFiles, returned, log, shaders,
                   glGenerated, glDeleted, stbiLoads, uploaded, shouldClose,
                   frames, uHeightScale>>

\* main.cpp:462-481, run by glfwPollEvents
MouseCallback ==
    /\ pc = "glfwPollEvents"
    /\ events < MaxEvents
    /\ \E pos \in CursorPositions :
          \E r \in {mouse_callback(camera, lastX, lastY, firstMouse,
                                   pos[1], pos[2])} :
             /\ camera' = r.camera
             /\ lastX' = r.lastX
             /\ lastY' = r.lastY
             /\ firstMouse' = r.firstMouse
    /\ events' = events + 1
    /\ UNCHANGED <<shaderVars, heightScale, deltaTime, lastFrame, quadVAO, pc, badFiles,
                   returned, log, shaders, glGenerated, glDeleted, stbiLoads,
                   uploaded, shouldClose, frames, frameSteps, uHeightScale>>

\* main.cpp:519-522, run by glfwPollEvents
ScrollCallback ==
    /\ pc = "glfwPollEvents"
    /\ events < MaxEvents
    /\ \E yoffset \in ScrollOffsets :
          camera' = ProcessMouseScroll(camera, yoffset)
    /\ events' = events + 1
    /\ UNCHANGED <<shaderVars, inputVars, quadVAO, pc, badFiles, returned, log, shaders,
                   glGenerated, glDeleted, stbiLoads, uploaded, shouldClose,
                   frames, frameSteps, uHeightScale>>

\* the user closes the window: glfwPollEvents sets the close flag
CloseRequested ==
    /\ pc = "glfwPollEvents"
    /\ events < MaxEvents
    /\ ~shouldClose
    /\ shouldClose' = TRUE
    /\ events' = events + 1
    /\ UNCHANGED <<shaderVars, cameraAndInput, quadVAO, pc, badFiles, returned, log,
                   shaders, glGenerated, glDeleted, stbiLoads, uploaded,
                   frames, frameSteps, uHeightScale>>

\* main.cpp:344-345: glfwPollEvents returns
PollReturn ==
    /\ pc = "glfwPollEvents"
    /\ frameSteps' = Append(frameSteps, "glfwPollEvents")
    /\ pc' = "LoopTest"
    /\ UNCHANGED <<shaderVars, cameraAndInput, quadVAO, badFiles, returned, log, shaders,
                   glGenerated, glDeleted, stbiLoads, uploaded, shouldClose,
                   frames, events, uHeightScale>>

\* main.cpp:244, 347-358: the loop test fails; cleanup and return 0
ExitLoop ==
    /\ pc = "LoopTest"
    /\ shouldClose
    /\ glDeleted' = {"VAO", "skyVAO", "VBO", "skyVBO"}
    /\ returned' = "0"
    /\ pc' = "Exited"
    /\ UNCHANGED <<shaderVars, cameraAndInput, quadVAO, badFiles, log, shaders,
                   glGenerated, stbiLoads, uploaded, shouldClose, frames,
                   frameSteps, events, uHeightScale>>

Init ==
    /\ camera = Camera(<<0, 0, 3 * PScale>>, DefaultUp, YAW, PITCH)
    /\ InitGlobals
    /\ InitMain
    /\ uHeightScale = F32Zero
    /\ badFiles \in BadFileSets
    /\ IdleFragment

Next ==
    \/ CreateWindow \/ LoadGL \/ CompileShaders \/ GenBuffers
    \/ LoadCubemap \/ LoadTexture
    \/ BeginFrame \/ ProcessInput \/ DrawPlain \/ DrawParallax \/ DrawSkybox
    \/ SwapBuffers \/ MouseCallback \/ ScrollCallback \/ CloseRequested
    \/ PollReturn \/ ExitLoop

Spec == Init /\ [][Next]_vars

\* ------------------------------------------- main.cpp with the P and O keys
\* the keys held during a frame, among those that change heightScale
HeightKeySets == {{}, {"P"}, {"O"}, {"P", "O"}}

\* main.cpp:251, with P and O
ProcessInputHeight ==
    /\ pc = "processInput"
    /\ \E keys \in HeightKeySets :
          \E r \in {processInput(camera, heightScale, shouldClose, keys,
                                 deltaTime)} :
             /\ camera' = r.camera
             /\ heightScale' = r.heightScale
             /\ shouldClose' = r.shouldClose
    /\ frameSteps' = Append(frameSteps, "processInput")
    /\ pc' = "drawPyramid"
    /\ UNCHANGED <<shaderVars, lastX, lastY, firstMouse, deltaTime, lastFrame,
                   quadVAO, badFiles, returned, log, shaders, glGenerated,
                   glDeleted, stbiLoads, uploaded, frames, events,
                   uHeightScale>>

InitHeight ==
    /\ camera = Camera(<<0, 0, 3 * PScale>>, DefaultUp, YAW, PITCH)
    /\ InitGlobals
    /\ InitMain
    /\ uHeightScale = F32Zero
    /\ badFiles = {}
    /\ IdleFragment

NextHeight ==
    \/ CreateWindow \/ LoadGL \/ CompileShaders \/ GenBuffers
    \/ LoadCubemap \/ LoadTexture
    \/ BeginFrame \/ ProcessInputHeight \/ DrawPlain \/ DrawParallax
    \/ DrawSkybox \/ SwapBuffers \/ PollReturn

SpecHeight == InitHeight /\ [][NextHeight]_vars

\* ------------------------------------------- the fragment shader, stepwise
\* parallax_mapping.fs:57-62, 18-31: main() up to the first loop test
FragmentMain ==
    /\ fsPc = "main"
    /\ LET viewDir == Normalize(VSub(fs_in.TangentViewPos,
                                     fs_in.TangentFragPos))
       IN  deltaTexCoords' = ParallaxDelta(viewDir, uHeightScale)
    /\ currentLayerDepth' = 0
    /\ currentTexCoords' = fs_in.TexCoords
    /\ currentDepthMapValue' = texture(depthMap, fs_in.TexCoords)
    /\ fsPc' = "while"
    /\ UNCHANGED <<cameraVars, inputVars, mainVars, fs_in, depthMap,
                   marchSteps, texCoords, FragColor>>

\* parallax_mapping.fs:33-41: one iteration of the layer march
March ==
    /\ fsPc = "while"
    /\ MarchCondition(currentLayerDepth, currentDepthMapValue)
    /\ LET shifted == <<currentTexCoords[1] - deltaTexCoords[1],
                        currentTexCoords[2] - deltaTexCoords[2]>>
       IN  /\ currentTexCoords' = shifted
           /\ currentDepthMapValue' = texture(depthMap, shifted)
    /\ currentLayerDepth' = currentLayerDepth + layerDepth
    /\ marchSteps' = marchSteps + 1
    /\ UNCHANGED <<cameraVars, inputVars, mainVars, fs_in, depthMap, fsPc,
                   deltaTexCoords, texCoords, FragColor>>

\* parallax_mapping.fs:33, 43-54, 62: the loop ends and ParallaxMapping returns
ParallaxReturn ==
    /\ fsPc = "while"
    /\ ~MarchCondition(currentLayerDepth, currentDepthMapValue)
    /\ texCoords' = Interpolate(depthMap, currentTexCoords, deltaTexCoords,
                                currentDepthMapValue, currentLayerDepth)
    /\ fsPc' = "edge"
    /\ UNCHANGED <<cameraVars, inputVars, mainVars, fs_in, depthMap,
                   deltaTexCoords, currentTexCoords, currentLayerDepth,
                   currentDepthMapValue, marchSteps, FragColor>>

\* parallax_mapping.fs:63-64: discard
Discard ==
    /\ fsPc = "edge"
    /\ EdgeDiscard(texCoords)
    /\ fsPc' = "discarded"
    /\ UNCHANGED <<cameraVars, inputVars, mainVars, fs_in, depthMap,
                   deltaTexCoords, currentTexCoords, currentLayerDepth,
                   currentDepthMapValue, marchSteps, texCoords, FragColor>>

\* parallax_mapping.fs:63, 66-83: the fragment is shaded
Shade ==
    /\ fsPc = "edge"
    /\ ~EdgeDiscard(texCoords)
    /\ FragColor' = "written"
    /\ fsPc' = "shaded"
    /\ UNCHANGED <<cameraVars, inputVars, mainVars, fs_in, depthMap,
                   deltaTexCoords, currentTexCoords, currentLayerDepth,
                   currentDepthMapValue, marchSteps, texCoords>>

InitParallax ==
    /\ camera = Camera(<<0, 0, 3 * PScale>>, DefaultUp, YAW, PITCH)
    /\ InitGlobals
    /\ InitMain
    /\ badFiles = {}
    /\ uHeightScale \in HeightScales
    /\ \E tc \in FragTexCoords, view \in TangentViewPositions,
          map \in DepthMaps :
          InitFragment([TexCoords |-> tc, TangentViewPos |-> view,
                        TangentFragPos |-> <<0, 0, 0>>], map)

NextParallax == FragmentMain \/ March \/ ParallaxReturn \/ Discard \/ Shade

SpecParallax == InitParallax /\ [][NextParallax]_vars

\* ------------------------------------------------------- claims on Camera
\* C1 (pitch clamp): from a camera whose pitch is within [-89, 89], after
\* any sequence of ProcessMouseMovement calls with constrainPitch set, with
\* positive or negative yoffset, the pitch is never above 89 and never
\* below -89.
C1_PitchClamped ==
    /\ camera.Pitch <= PitchLimit
    /\ camera.Pitch >= -PitchLimit

\* a rotation has driven the pitch to the lower limit, and the yaw has turned
C1_Witness ==
    /\ camera.Pitch = -PitchLimit
    /\ camera.Yaw # YAW

\* C2 (zoom clamp): after any sequence of ProcessMouseScroll calls the zoom is
\* within [1, 45], and each call subtracts yoffset from the zoom and then
\* clamps the difference to [1, 45].
C2_ZoomClamped ==
    /\ camera.Zoom >= ZoomMin
    /\ camera.Zoom <= ZoomMax
    /\ \A yoffset \in ScrollOffsets :
          LET diff == camera.Zoom - yoffset
          IN  ProcessMouseScroll(camera, yoffset).Zoom
                = IF diff <= ZoomMin THEN ZoomMin
                  ELSE IF diff >= ZoomMax THEN ZoomMax ELSE diff

\* the zoom has been scrolled to the lower limit
C2_Witness == camera.Zoom = ZoomMin

\* C3 (movement): a call ProcessKeyboard(FORWARD, dt) with dt = 1 second and
\* MovementSpeed = 2.5 advances the position by MovementSpeed * dt along
\* Front, applied once; ProcessKeyboard(BACKWARD, dt) retreats by as much.
C3_MoveOnce ==
    [][/\ (camera' = ProcessKeyboard(camera, "FORWARD", TimeScale))
            => camera'.Position
                 = VAdd(camera.Position,
                        Displacement(camera.Front, SPEED * TimeScale))
       /\ (camera' = ProcessKeyboard(camera, "BACKWARD", TimeScale))
            => camera'.Position
                 = VSub(camera.Position,
                        Displacement(camera.Front, SPEED * TimeScale))]_vars

\* the point `pos` (w = 1) transformed by the matrix m is the origin
MapsToOrigin(m, pos) ==
    /\ ~IsNaN(m)
    /\ LET v == Mat4MulVec(m, <<pos[1], pos[2], pos[3], PScale>>)
       IN  v[1] = 0 /\ v[2] = 0 /\ v[3] = 0

\* C7 (view matrix): for every camera position and every non-degenerate
\* basis, GetViewMatrix applied to the camera's own position (w = 1) gives
\* the origin of view space, and so does GetViewMatrixReverse.
C7_ViewOfOwnPosition ==
    /\ MapsToOrigin(GetViewMatrix(camera), camera.Position)
    /\ MapsToOrigin(GetViewMatrixReverse(camera), camera.Position)

\* the camera has moved off every axis plane and has turned and pitched
C7_Witness ==
    /\ camera.Position[1] # 0 /\ camera.Position[2] # 0
    /\ camera.Position[3] # 0
    /\ camera.Yaw # YAW /\ camera.Pitch = PitchLimit

\* the tolerance of C8, in units of 1/FScale
OrthoTol == 2

UnitLength(v) ==
    /\ ~IsNaN(v)
    /\ Abs(Dot(v, v) - FScale * FScale) <= 2 * OrthoTol * FScale

Orthogonal(a, b) ==
    /\ ~IsNaN(a) /\ ~IsNaN(b)
    /\ Abs(Dot(a, b)) <= OrthoTol * FScale

\* C8 (orthonormality): after construction and after any sequence of
\* ProcessMouseMovement calls (pitch constrained), Front, Right and Up are
\* unit vectors, pairwise orthogonal, and right-handed (Right x Up = -Front),
\* within the tolerance OrthoTol.
C8_Orthonormal ==
    /\ UnitLength(camera.Front)
    /\ UnitLength(camera.Right)
    /\ UnitLength(camera.Up)
    /\ Orthogonal(camera.Front, camera.Right)
    /\ Orthogonal(camera.Front, camera.Up)
    /\ Orthogonal(camera.Right, camera.Up)
    /\ \A i \in 1..3 :
          Abs(Cross(camera.Right, camera.Up)[i] + camera.Front[i]) <= OrthoTol

\* the camera has been rotated to the upper pitch limit at a yaw off the axes
C8_Witness ==
    /\ camera.Pitch = PitchLimit
    /\ camera.Yaw = -300

\* --------------------------------------------- claims on parallax_mapping.fs
CeilDiv(a, b) == (a + b - 1) \div b

IsConstantField(map, h) ==
    \A i \in 1..TexSize, j \in 1..TexSize : map[i][j] = h

AfterMarch == fsPc \in {"edge", "discarded", "shaded"}

\* C4: on a depth map that returns the same value h in [0,1] at every
\* coordinate, the layer march of ParallaxMapping runs exactly
\* ceil(h * numLayers) iterations (none for h = 0, numLayers for h = 1), and
\* never more while it is still running.
C4_ConstantFieldMarch ==
    \A h \in 0..DScale :
        IsConstantField(depthMap, h) =>
            /\ marchSteps <= CeilDiv(h * numLayers, DScale)
            /\ AfterMarch => marchSteps = CeilDiv(h * numLayers, DScale)

\* a constant field of 127/255 has been marched through in 5 layers, with a
\* slanted view and a non-zero height scale
C4_Witness ==
    /\ IsConstantField(depthMap, 1270)
    /\ AfterMarch
    /\ marchSteps = 5
    /\ deltaTexCoords[1] # 0 /\ deltaTexCoords[2] # 0

C6_EdgeDiscard ==
    fsPc \in {"discarded", "shaded"} =>
        LET outside == \E i \in 1..2 : texCoords[i] < 0 \/ texCoords[i] > TScale
        IN  /\ (fsPc = "discarded") <=> outside
            /\ (FragColor = "unwritten") <=> outside
            /\ (FragColor = "written") <=> (fsPc = "shaded")

\* a fragment whose coordinate came back as exactly (1, 0) after a march with
\* a non-zero offset has been shaded
C6_Witness ==
    /\ fsPc = "shaded"
    /\ texCoords = <<TScale, 0>>
    /\ marchSteps > 0
    /\ FragColor = "written"

\* ------------------------------------------------------- claims on main.cpp
Count(seq, x) == Cardinality({i \in 1..Len(seq) : seq[i] = x})

FailureLine(path) ==
    IF path \in Range(faces)
    THEN "Cubemap texture failed to load at path: " \o path
    ELSE "Texture failed to load at path: " \o path

StartupPc ==
    {"glfwCreateWindow", "gladLoadGLLoader", "Shader", "glGenBuffers",
     "loadCubemap", "loadTexture1", "loadTexture2", "loadTexture3"}

\* C9: a failed image decode is not fatal. For every path handed to
\* stbi_load: it is handed over once (no retry); when the decode fails one
\* line is logged for it and no pixels are uploaded, otherwise the pixels are
\* uploaded and nothing is logged; the texture's handle has been generated
\* and is the one returned; main() does not return -1 once a load was
\* attempted, and past startup all nine files have been attempted.
C9_LoadFailureNonFatal ==
    /\ \A path \in Range(stbiLoads) :
          /\ Count(stbiLoads, path) = 1
          /\ (path \in badFiles) => Count(log, FailureLine(path)) = 1
          /\ (path \in badFiles) <=> (path \notin uploaded)
          /\ (path \notin badFiles) => Count(log, FailureLine(path)) = 0
    /\ \A i \in 1..3 :
          LET call == TextureCalls[i]
          IN  /\ (call.path \in Range(stbiLoads))
                    => Count(glGenerated, call.handle) = 1
              /\ loadTexture(LoaderState, call.handle, call.path,
                             badFiles).result = call.handle
    /\ stbiLoads # <<>> => Count(glGenerated, "cubemapTexture") = 1
    /\ stbiLoads # <<>> => returned # "-1"
    /\ (pc \notin StartupPc /\ returned # "-1") => Range(stbiLoads) = AllFiles

\* every file failed to decode and the render loop still ran its frames
C9_Witness ==
    /\ badFiles = AllFiles
    /\ Len(log) = Cardinality(AllFiles)
    /\ uploaded = {}
    /\ frames = MaxFrames
    /\ pc = "glfwPollEvents"

\* C10: when creating the window or loading the GL function pointers fails,
\* main() logs the failure and returns -1 with no buffer, texture or shader
\* created, no frame begun and no input processed.
C10_InitFailureFatal ==
    returned = "-1" =>
        /\ pc = "Exited"
        /\ log \in {<<"Failed to create GLFW window">>,
                    <<"Failed to initialize GLAD">>}
        /\ glGenerated = <<>>
        /\ shaders = {}
        /\ stbiLoads = <<>> /\ uploaded = {}
        /\ frames = 0 /\ frameSteps = <<>>
        /\ camera = Camera(<<0, 0, 3 * PScale>>, DefaultUp, YAW, PITCH)
        /\ heightScale = InitialHeightScale /\ firstMouse

\* the window was created and loading the GL function pointers failed
C10_Witness ==
    /\ returned = "-1"
    /\ log = <<"Failed to initialize GLAD">>

\* the GL objects main() generates before the render loop (main.cpp:177-224)
StartupResources ==
    {"VAO", "VBO", "EBO", "skyVAO", "skyVBO", "bayraqVAO", "bayraqVBO",
     "cubemapTexture"} \cup {TextureCalls[i].handle : i \in 1..3}

\* C11: every graphics resource is created exactly once, during startup and
\* before the first frame; while the render loop runs no resource is created
\* or destroyed; once main() has returned 0 every created resource has been
\* released.
C11_ResourceLifetime ==
    /\ \A name \in Range(glGenerated) : Count(glGenerated, name) = 1
    /\ (frames > 0 /\ returned = "running") =>
          /\ Range(glGenerated) = StartupResources
          /\ glDeleted = {}
    /\ returned = "0" => glDeleted = Range(glGenerated)

FrameOrder ==
    <<"processInput", "drawPyramid", "drawReflect", "drawFlag",
      "drawParallax", "drawSkybox", "glfwSwapBuffers", "glfwPollEvents">>

IsPrefix(s, t) == Len(s) <= Len(t) /\ \A i \in 1..Len(s) : s[i] = t[i]

\* C12: the steps of every iteration of the render loop are a prefix of
\* processInput, the five draws in their fixed order, the buffer swap and
\* the event poll, complete when the loop test is reached again; the camera
\* and heightScale change only in processInput and during the event poll,
\* and the mouse and scroll state only during the event poll, so nothing
\* changes between the first and the last draw.
C12_FrameOrdering ==
    /\ [](/\ IsPrefix(frameSteps, FrameOrder)
          /\ (pc = "LoopTest" /\ frames > 0) => frameSteps = FrameOrder
          /\ (pc = "processInput") => frameSteps = <<>>
          /\ (pc = "glfwPollEvents")
                => frameSteps = SubSeq(FrameOrder, 1, Len(FrameOrder) - 1))
    /\ [][/\ (camera' # camera \/ heightScale' # heightScale)
                => pc \in {"processInput", "glfwPollEvents"}
          /\ (camera'.Zoom # camera.Zoom \/ camera'.Yaw # camera.Yaw
              \/ camera'.Pitch # camera.Pitch \/ lastX' # lastX
              \/ lastY' # lastY \/ firstMouse' # firstMouse)
                => pc = "glfwPollEvents"
          /\ (frameSteps' # frameSteps /\ frameSteps' # <<>>)
                => frameSteps' = Append(frameSteps, pc)]_vars

\* a second iteration is complete, after both a key and a scroll changed the
\* camera
C12_Witness ==
    /\ pc = "LoopTest"
    /\ frames = MaxFrames
    /\ frameSteps = FrameOrder
    /\ camera.Zoom # ZOOM
    /\ camera.Position # <<0, 0, 3 * PScale>>

\* pixels scaled by the sensitivity, in units of 1/AngleScale degree
ScaledOffset(pixels) == RoundDiv(pixels * SENSITIVITY * AngleScale, SensScale)

ClampPitch(pitch) ==
    IF pitch > PitchLimit THEN PitchLimit
    ELSE IF pitch < -PitchLimit THEN -PitchLimit
    ELSE pitch

\* C13: ProcessMouseMovement(xoffset, yoffset, constrainPitch) sets the yaw
\* to yaw + xoffset * sensitivity, without clamping or wrapping it, and the
\* pitch to pitch + yoffset * sensitivity, clamped to [-89, 89] only when
\* constrainPitch is set; position and zoom are left unchanged.
C13_Rotate ==
    [][\A offset \in MouseOffsets, constrainPitch \in BOOLEAN :
          camera' = ProcessMouseMovement(camera, offset[1], offset[2],
                                         constrainPitch)
          => /\ camera'.Yaw = camera.Yaw + ScaledOffset(offset[1])
             /\ camera'.Pitch =
                   IF constrainPitch
                   THEN ClampPitch(camera.Pitch + ScaledOffset(offset[2]))
                   ELSE camera.Pitch + ScaledOffset(offset[2])
             /\ camera'.Position = camera.Position
             /\ camera'.Zoom = camera.Zoom]_vars

\* the pitch has left [-89, 89], the yaw has passed a full turn, and the zoom
\* is not the initial one
C13_Witness ==
    /\ camera.Pitch > PitchLimit
    /\ camera.Yaw > 360 * AngleScale
    /\ camera.Zoom # ZOOM

\* C14: in every state reached through the constructor, ProcessKeyboard,
\* ProcessMouseMovement and ProcessMouseScroll, the stored Front, Right and
\* Up are the vectors updateCameraVectors() derives from the current Yaw,
\* Pitch and WorldUp: no operation leaves a stale basis behind.
C14_NoStaleBasis ==
    LET fresh == updateCameraVectors(camera)
    IN  /\ camera.Front = fresh.Front
        /\ camera.Right = fresh.Right
        /\ camera.Up = fresh.Up
        /\ camera.WorldUp = DefaultUp

\* the camera has been turned, moved and zoomed
C14_Witness ==
    /\ camera.Yaw # YAW
    /\ camera.Pitch # PITCH
    /\ camera.Position # <<0, 0, 3 * PScale>>
    /\ camera.Zoom # ZOOM

\* C15: for every depth map with values in [0,1] the layer march runs at
\* most numLayers iterations; once it has ended the accumulated layer depth
\* is >= the depth sampled at the current coordinate; and every iteration
\* was entered with the layer depth strictly below the depth sampled at the
\* coordinate of that step, the layer depth rising by layerDepth each time.
C15_MarchTerminates ==
    /\ [](/\ marchSteps <= numLayers
          /\ AfterMarch =>
                /\ currentLayerDepth >= currentDepthMapValue
                /\ currentDepthMapValue = texture(depthMap, currentTexCoords))
    /\ [][marchSteps' # marchSteps =>
             /\ marchSteps' = marchSteps + 1
             /\ currentLayerDepth < texture(depthMap, currentTexCoords)
             /\ currentLayerDepth * numLayers = marchSteps * DScale]_vars

\* on a depth map that is not constant the march has moved to a texel of
\* another depth and ended after several layers
C15_Witness ==
    /\ AfterMarch
    /\ marchSteps >= 3
    /\ depthMap[1][1] # depthMap[1][2]
    /\ currentDepthMapValue # texture(depthMap, fs_in.TexCoords)

\* C16: after the march afterDepth <= 0 and beforeDepth > 0, so their
\* difference is not zero and the weight lies in [0, 1); the coordinate
\* returned lies between prevTexCoords and currentTexCoords in each
\* component, and is the input coordinate when the loop did not run.
C16_InterpolationBracket ==
    AfterMarch =>
        LET after  == afterDepth(currentDepthMapValue, currentLayerDepth)
            before == beforeDepth(depthMap, currentTexCoords, deltaTexCoords,
                                  currentLayerDepth)
            prev   == prevTexCoords(currentTexCoords, deltaTexCoords)
        IN  /\ after <= 0
            /\ before > 0
            /\ after - before # 0
            /\ weight(after, before) >= 0
            /\ weight(after, before) < WScale
            /\ ~IsNaN(texCoords)
            /\ \A i \in 1..2 :
                  /\ texCoords[i] >= Min2(prev[i], currentTexCoords[i])
                  /\ texCoords[i] <= Max2(prev[i], currentTexCoords[i])
            /\ marchSteps = 0 => texCoords = fs_in.TexCoords

\* the coordinate returned lies strictly between the one before and the one
\* after the collision
C16_Witness ==
    /\ AfterMarch
    /\ marchSteps > 0
    /\ texCoords[1] > Min2(prevTexCoords(currentTexCoords, deltaTexCoords)[1],
                           currentTexCoords[1])
    /\ texCoords[1] < Max2(prevTexCoords(currentTexCoords, deltaTexCoords)[1],
                           currentTexCoords[1])

\* C17: starting from heightScale = 0.1, whatever keys among P and O are
\* held in each frame, the heightScale passed to the parallax shader is
\* within [0, 1]; with both keys held in a frame, processInput applies only
\* the decrease.
C17_HeightScaleRange ==
    /\ ~F32Negative(uHeightScale)
    /\ ~F32Less(F32One, uHeightScale)
    /\ processInput(camera, heightScale, shouldClose, {"P", "O"},
                    deltaTime).heightScale
          = processInput(camera, heightScale, shouldClose, {"P"},
                         deltaTime).heightScale

=============================================================================
